---- MODULE Spec2Model ----
(***************************************************************************)
(* GraphML codec of networkit (src/python/GraphMLIO.py): the SAX content   *)
(* handler GraphMLSAX, the GraphMLReader wrapper that owns one handler for *)
(* its whole life, and the GraphMLWriter.                                  *)
(*                                                                         *)
(* Strings that are only compared (element names, attribute values) are    *)
(* TLA+ strings.  Character data is a sequence of one-character strings,   *)
(* because strip() and float() look at single characters.  A float is a    *)
(* normalised decimal [neg, m, e] standing for (-1)^neg * m * 10^-e.       *)
(***************************************************************************)
EXTENDS Integers, Sequences, FiniteSets, TLC

(***************************************************************************)
(* Bounds of the model.                                                    *)
(***************************************************************************)
MaxReads  == 2   \* read() calls on the one GraphMLReader instance
MaxElems  == 3   \* elements opened below the root, over all documents read
MaxDepth  == 3   \* nesting depth below the root element
MaxChunks == 1   \* characters() calls buffered between two element ends
MaxWrites == 2   \* write() calls on the one GraphMLWriter instance
MaxNodes  == 2   \* nodes of a graph handed to write() or to bfsSample()
MaxEdges  == 2   \* edges of a graph handed to write() or to bfsSample()
MaxK      == 2   \* the parameter k of bfsSample()

(***************************************************************************)
(* Python's str(int), str(float), str.strip() and float(str).              *)
(***************************************************************************)
Digits == <<"0", "1", "2", "3", "4", "5", "6", "7", "8", "9">>

RECURSIVE str(_)
str(n) == IF n < 10 THEN Digits[n + 1] ELSE str(n \div 10) \o Digits[(n % 10) + 1]

RECURSIVE DigitChars(_)
DigitChars(n) == IF n < 10 THEN <<Digits[n + 1]>>
                 ELSE Append(DigitChars(n \div 10), Digits[(n % 10) + 1])

RECURSIVE Pow10(_)
Pow10(k) == IF k = 0 THEN 1 ELSE 10 * Pow10(k - 1)

RECURSIVE Normalise(_)
Normalise(f) == IF f.e > 0 /\ f.m % 10 = 0
                THEN Normalise([f EXCEPT !.m = f.m \div 10, !.e = f.e - 1])
                ELSE f

Float(neg, m, e) == Normalise([neg |-> neg /\ m # 0, m |-> m, e |-> e])

RECURSIVE FracChars(_, _)
FracChars(r, e) == IF e = 0 THEN <<>>
                   ELSE <<Digits[(r \div Pow10(e - 1)) + 1]>> \o FracChars(r % Pow10(e - 1), e - 1)

\* str(float): shortest decimal that reads back, always with a fractional part
FloatStr(f) ==
    LET ip == f.m \div Pow10(f.e)
        fp == f.m % Pow10(f.e)
    IN  (IF f.neg THEN <<"-">> ELSE <<>>) \o DigitChars(ip) \o <<".">>
        \o (IF f.e = 0 THEN <<"0">> ELSE FracChars(fp, f.e))

WhiteSpace == {" ", "\n", "\t"}

RECURSIVE lstrip(_)
lstrip(s) == IF s # <<>> /\ s[1] \in WhiteSpace THEN lstrip(Tail(s)) ELSE s

RECURSIVE rstrip(_)
rstrip(s) == IF s # <<>> /\ s[Len(s)] \in WhiteSpace
             THEN rstrip(SubSeq(s, 1, Len(s) - 1)) ELSE s

strip(s) == rstrip(lstrip(s))

IsDigit(c) == \E i \in 1..10 : Digits[i] = c

DigitVal(c) == (CHOOSE i \in 1..10 : Digits[i] = c) - 1

RECURSIVE DigitsVal(_)
DigitsVal(s) == IF s = <<>> THEN 0
                ELSE 10 * DigitsVal(SubSeq(s, 1, Len(s) - 1)) + DigitVal(s[Len(s)])

\* float(text): [ok |-> TRUE, val |-> f] or [ok |-> FALSE] for a ValueError.
\* Accepted here: optional sign, digits with at most one decimal point and at
\* least one digit, surrounded by optional white space.
float(text) ==
    LET t      == strip(text)
        signed == t # <<>> /\ t[1] \in {"-", "+"}
        body   == IF signed THEN Tail(t) ELSE t
        dots   == {i \in 1..Len(body) : body[i] = "."}
        ipart  == IF dots = {} THEN body
                  ELSE SubSeq(body, 1, (CHOOSE i \in dots : TRUE) - 1)
        fpart  == IF dots = {} THEN <<>>
                  ELSE SubSeq(body, (CHOOSE i \in dots : TRUE) + 1, Len(body))
        valid  == /\ Cardinality(dots) <= 1
                  /\ Len(ipart) + Len(fpart) >= 1
                  /\ \A i \in 1..Len(ipart) : IsDigit(ipart[i])
                  /\ \A i \in 1..Len(fpart) : IsDigit(fpart[i])
    IN  IF valid
        THEN [ok |-> TRUE,
              val |-> Float(signed /\ t[1] = "-", DigitsVal(ipart \o fpart), Len(fpart))]
        ELSE [ok |-> FALSE, val |-> Float(FALSE, 0, 0)]

RECURSIVE join(_)
join(chunks) == IF chunks = <<>> THEN <<>> ELSE Head(chunks) \o join(Tail(chunks))

(***************************************************************************)
(* The graph engine (_NetworKit.Graph), as far as the codec uses it.       *)
(***************************************************************************)
DefaultEdgeWeight == Float(FALSE, 1, 0)

Graph(n, weighted, directed) ==
    [n |-> n, weighted |-> weighted, directed |-> directed, name |-> "", edges |-> <<>>]

setName(G, name) == [G EXCEPT !.name = name]

addNode(G) == [G EXCEPT !.n = G.n + 1]

hasNode(G, u) == u \in 0..(G.n - 1)

addEdge(G, u, v, w) ==
    [G EXCEPT !.edges = Append(G.edges,
        [u |-> u, v |-> v, w |-> IF G.weighted THEN w ELSE DefaultEdgeWeight])]

isWeighted(G) == G.weighted

isDirected(G) == G.directed

getName(G) == G.name

nodes(G) == [i \in 1..G.n |-> i - 1]

edges(G) == [i \in 1..Len(G.edges) |-> <<G.edges[i].u, G.edges[i].v>>]

SameEdge(G, e, u, v) ==
    \/ e.u = u /\ e.v = v
    \/ ~G.directed /\ e.u = v /\ e.v = u

hasEdge(G, u, v) == \E i \in 1..Len(G.edges) : SameEdge(G, G.edges[i], u, v)

weight(G, u, v) ==
    IF hasEdge(G, u, v)
    THEN G.edges[CHOOSE i \in 1..Len(G.edges) :
                    /\ SameEdge(G, G.edges[i], u, v)
                    /\ \A j \in 1..(i - 1) : ~SameEdge(G, G.edges[j], u, v)].w
    ELSE Float(FALSE, 0, 0)

(***************************************************************************)
(* GraphMLSAX: the content handler.  A handler is a record of its fields;  *)
(* a callback maps the handler to [self |-> handler after the call,        *)
(* exc |-> "none" or the exception that left the callback].                *)
(***************************************************************************)
NoMapping == [x \in {} |-> 0]

GraphMLSAX ==
    [charBuffer |-> <<>>,
     mapping    |-> NoMapping,
     g          |-> Graph(0, FALSE, FALSE),
     graphName  |-> "",
     weightedID |-> "",
     weighted   |-> FALSE,
     directed   |-> FALSE,
     edgestack  |-> <<>>,
     edgeweight |-> Float(FALSE, 0, 0),
     keepData   |-> FALSE]

Return(self) == [self |-> self, exc |-> "none"]

Raise(self, exc) == [self |-> self, exc |-> exc]

\* attrs.getValue(k) raises KeyError when the attribute is absent
hasValue(attrs, k) == k \in DOMAIN attrs

getValue(attrs, k) == attrs[k]

startGraph(self, attrs) ==
    IF ~hasValue(attrs, "edgedefault") THEN Raise(self, "KeyError")
    ELSE LET s1 == IF getValue(attrs, "edgedefault") = "directed"
                   THEN [self EXCEPT !.directed = TRUE] ELSE self
         IN  IF ~hasValue(attrs, "id") THEN Raise(s1, "KeyError")
             ELSE LET s2 == IF ~(getValue(attrs, "id") = "")
                            THEN [s1 EXCEPT !.graphName = getValue(attrs, "id")] ELSE s1
                  IN  Return([s2 EXCEPT !.g =
                          setName(Graph(0, s2.weighted, s2.directed), s2.graphName)])

startNode(self, attrs) ==
    LET u  == self.g.n
        s1 == [self EXCEPT !.g = addNode(self.g)]
    IN  IF ~hasValue(attrs, "id") THEN Raise(s1, "KeyError")
        ELSE Return([s1 EXCEPT !.mapping = (getValue(attrs, "id") :> u) @@ s1.mapping])

startEdge(self, attrs) ==
    IF ~hasValue(attrs, "source") \/ ~hasValue(attrs, "target") THEN Raise(self, "KeyError")
    ELSE Return([self EXCEPT !.edgestack =
            Append(self.edgestack, <<getValue(attrs, "source"), getValue(attrs, "target")>>)])

\* startKey that also makes the graph under construction weighted
startKey_rebuild(self, attrs) ==
    IF ~hasValue(attrs, "for") THEN Raise(self, "KeyError")
    ELSE IF getValue(attrs, "for") # "edge" THEN Return(self)
    ELSE IF ~hasValue(attrs, "attr.name") THEN Raise(self, "KeyError")
    ELSE IF getValue(attrs, "attr.name") # "weight" THEN Return(self)
    ELSE IF ~hasValue(attrs, "attr.type") THEN Raise(self, "KeyError")
    ELSE IF getValue(attrs, "attr.type") # "double" THEN Return(self)
    ELSE LET s1 == [self EXCEPT !.weighted = TRUE, !.g.weighted = TRUE]
         IN  IF ~hasValue(attrs, "id") THEN Raise(s1, "KeyError")
             ELSE Return([s1 EXCEPT !.weightedID = getValue(attrs, "id")])

startKey(self, attrs) ==
    IF ~hasValue(attrs, "for") THEN Raise(self, "KeyError")
    ELSE IF getValue(attrs, "for") # "edge" THEN Return(self)
    ELSE IF ~hasValue(attrs, "attr.name") THEN Raise(self, "KeyError")
    ELSE IF getValue(attrs, "attr.name") # "weight" THEN Return(self)
    ELSE IF ~hasValue(attrs, "attr.type") THEN Raise(self, "KeyError")
    ELSE IF getValue(attrs, "attr.type") # "double" THEN Return(self)
    ELSE LET s1 == [self EXCEPT !.weighted = TRUE]
         IN  IF ~hasValue(attrs, "id") THEN Raise(s1, "KeyError")
             ELSE Return([s1 EXCEPT !.weightedID = getValue(attrs, "id")])

startData(self, attrs) ==
    IF ~hasValue(attrs, "key") THEN Raise(self, "KeyError")
    ELSE IF getValue(attrs, "key") = self.weightedID
         THEN Return([self EXCEPT !.keepData = TRUE])
         ELSE Return(self)

startElement(self, name, attrs) ==
    CASE name = "graph" -> startGraph(self, attrs)
      [] name = "node"  -> startNode(self, attrs)
      [] name = "edge"  -> startEdge(self, attrs)
      [] name = "key"   -> startKey(self, attrs)
      [] name = "data"  -> startData(self, attrs)
      [] OTHER          -> Return(self)

characters(self, content) == [self EXCEPT !.charBuffer = Append(self.charBuffer, content)]

getCharacterData(self) ==
    [self |-> [self EXCEPT !.charBuffer = <<>>], data |-> strip(join(self.charBuffer))]

\* the edge branch of endElement; exc "undefined" marks a call of addEdge with
\* a node id the graph does not have (no defined behaviour in the engine)
endEdge(self) ==
    IF self.edgestack = <<>> THEN Raise(self, "IndexError")
    ELSE LET u  == self.edgestack[Len(self.edgestack)][1]
             v  == self.edgestack[Len(self.edgestack)][2]
             s1 == [self EXCEPT !.edgestack = SubSeq(self.edgestack, 1, Len(self.edgestack) - 1)]
         IN  IF u \notin DOMAIN s1.mapping \/ v \notin DOMAIN s1.mapping
             THEN Raise(s1, "KeyError")
             ELSE LET mu == s1.mapping[u]
                      mv == s1.mapping[v]
                      s2 == IF s1.weighted
                            THEN [s1 EXCEPT !.g = addEdge(s1.g, mu, mv, s1.edgeweight),
                                            !.edgeweight = Float(FALSE, 0, 0)]
                            ELSE [s1 EXCEPT !.g = addEdge(s1.g, mu, mv, DefaultEdgeWeight)]
                  IN  IF hasNode(s1.g, mu) /\ hasNode(s1.g, mv)
                      THEN Return(s2) ELSE Raise(s2, "undefined")

\* endData that drops the parsed value
endData_dropped(self, data) ==
    LET s1 == [self EXCEPT !.keepData = FALSE]
        f  == float(data)
    IN  IF f.ok THEN Return(s1) ELSE Raise(s1, "ValueError")

\* endData that takes text that is no number as 0.0
endData_lenient(self, data) ==
    LET s1 == [self EXCEPT !.keepData = FALSE]
        f  == float(data)
    IN  Return([s1 EXCEPT !.edgeweight = f.val])

endData(self, data) ==
    LET s1 == [self EXCEPT !.keepData = FALSE]
        f  == float(data)
    IN  IF f.ok THEN Return([s1 EXCEPT !.edgeweight = f.val]) ELSE Raise(s1, "ValueError")

endElement(self, name) ==
    LET cd == getCharacterData(self)
    IN  IF name = "edge" THEN endEdge(cd.self)
        ELSE IF name = "data" /\ cd.self.keepData THEN endData(cd.self, cd.data)
        ELSE Return(cd.self)

getGraph(self) == self.g

(***************************************************************************)
(* GraphMLWriter.  write() builds the element tree and serialises it; the  *)
(* output is the sequence of events a parser reports for that document.    *)
(***************************************************************************)
StartEvent(name, attrs) == [type |-> "start", name |-> name, attrs |-> attrs, content |-> <<>>]

TextEvent(content) == [type |-> "characters", name |-> "", attrs |-> [x \in {} |-> ""], content |-> content]

EndEvent(name) == [type |-> "end", name |-> name, attrs |-> [x \in {} |-> ""], content |-> <<>>]

GraphMLWriter == [edgeIdCounter |-> 0, dir_str |-> ""]

\* writeKey without the isWeighted() test
writeKey_always(G) ==
    <<StartEvent("key", ("for" :> "edge") @@ ("id" :> "d1") @@ ("attr.name" :> "weight")
                        @@ ("attr.type" :> "double")),
      EndEvent("key")>>

\* lines 124-130: the key element of a weighted graph
writeKey(G) ==
    IF isWeighted(G)
    THEN <<StartEvent("key", ("for" :> "edge") @@ ("id" :> "d1") @@ ("attr.name" :> "weight")
                             @@ ("attr.type" :> "double")),
           EndEvent("key")>>
    ELSE <<>>

\* lines 143-145: one node element per node, in the order of graph.nodes()
RECURSIVE writeNodes(_)
writeNodes(ns) ==
    IF ns = <<>> THEN <<>>
    ELSE <<StartEvent("node", [id |-> str(Head(ns))]), EndEvent("node")>> \o writeNodes(Tail(ns))

\* writeEdge with source and target exchanged
writeEdge_swapped(self, G, e) ==
    <<StartEvent("edge", [directed |-> self.dir_str, target |-> str(e[1]), source |-> str(e[2]),
                          id |-> "e" \o str(self.edgeIdCounter)])>>
    \o (IF isWeighted(G)
        THEN <<StartEvent("data", [key |-> "d1"]), TextEvent(FloatStr(weight(G, e[1], e[2]))),
               EndEvent("data")>>
        ELSE <<>>)
    \o <<EndEvent("edge")>>

\* lines 158-167 and 170-175: one edge element, numbered by the counter
writeEdge(self, G, e) ==
    <<StartEvent("edge", [directed |-> self.dir_str, target |-> str(e[2]), source |-> str(e[1]),
                          id |-> "e" \o str(self.edgeIdCounter)])>>
    \o (IF isWeighted(G)
        THEN <<StartEvent("data", [key |-> "d1"]), TextEvent(FloatStr(weight(G, e[1], e[2]))),
               EndEvent("data")>>
        ELSE <<>>)
    \o <<EndEvent("edge")>>

\* lines 156-175: the loop over graph.edges()
RECURSIVE writeEdges(_, _, _)
writeEdges(self, G, es) ==
    IF es = <<>> THEN [self |-> self, out |-> <<>>]
    ELSE LET rest == writeEdges([self EXCEPT !.edgeIdCounter = self.edgeIdCounter + 1], G, Tail(es))
         IN  [self |-> rest.self, out |-> writeEdge(self, G, Head(es)) \o rest.out]

\* write without the reset of lines 114-115
write_noReset(self, G) ==
    LET s1 == [self EXCEPT !.dir_str = IF isDirected(G) THEN "true" ELSE "false"]
        ge == StartEvent("graph", [edgedefault |-> IF isDirected(G) THEN "directed" ELSE "undirected",
                                   id |-> getName(G)])
        es == writeEdges(s1, G, edges(G))
    IN  [self |-> es.self,
         out  |-> <<StartEvent("graphml", [x \in {} |-> ""])>> \o writeKey(G) \o <<ge>>
                  \o writeNodes(nodes(G)) \o es.out
                  \o <<EndEvent("graph"), EndEvent("graphml")>>]

write(self, G) ==
    LET s0 == [self EXCEPT !.edgeIdCounter = 0, !.dir_str = ""]
        s1 == [s0 EXCEPT !.dir_str = IF isDirected(G) THEN "true" ELSE "false"]
        ge == StartEvent("graph", [edgedefault |-> IF isDirected(G) THEN "directed" ELSE "undirected",
                                   id |-> getName(G)])
        es == writeEdges(s1, G, edges(G))
    IN  [self |-> es.self,
         out  |-> <<StartEvent("graphml", [x \in {} |-> ""])>> \o writeKey(G) \o <<ge>>
                  \o writeNodes(nodes(G)) \o es.out
                  \o <<EndEvent("graph"), EndEvent("graphml")>>]

(***************************************************************************)
(* bfsSample (networkit/sampling.py).  The activation of a call is a       *)
(* record of its parameters and locals; pc is the place it has reached:    *)
(* "called" (line 25), "while" (the loop test of line 33), "forEdgesOf"    *)
(* (inside the call of line 42), "done" (returned).  The name nk is taken  *)
(* to be bound to the networkit package.                                   *)
(*   arg      the parameter source as the caller passed it                 *)
(*   todo     the neighbours of u that forEdgesOf still has to report      *)
(*   appends  for every node, the number of Q.append calls made with it    *)
(*   pops     the number of loop iterations begun                          *)
(***************************************************************************)
None == -1

\* Python's truth value of the parameter source
truth(source) == source # None /\ source # 0

\* nk.graphtools.randomNode(G): any node of G
randomNode(G) == 0..(G.n - 1)

\* G.forEdgesOf(u, callback): the heads the callback is called with, one per
\* edge at u, in the order the edges were added
forEdgesOf(G, u) ==
    LET at == SelectSeq(G.edges, LAMBDA e : e.u = u \/ (~G.directed /\ e.v = u))
    IN  [i \in 1..Len(at) |-> IF at[i].u = u THEN at[i].v ELSE at[i].u]

\* nk.graphtools.subgraphFromNodes(G, nodes): the subgraph induced by nodes
subgraphFromNodes(G, ns) ==
    [nodes |-> ns, directed |-> G.directed,
     edges |-> SelectSeq(G.edges, LAMBDA e : e.u \in ns /\ e.v \in ns)]

NoCall ==
    [pc |-> "idle", G |-> Graph(0, FALSE, FALSE), arg |-> None, source |-> None, k |-> 0,
     visited |-> <<>>, Q |-> <<>>, closest |-> {}, found |-> 0, u |-> None, todo |-> <<>>,
     appends |-> <<>>, pops |-> 0, G1 |-> subgraphFromNodes(Graph(0, FALSE, FALSE), {})]

\* bfsSample(G, source, k) has been called
Called(G, source, k) ==
    [NoCall EXCEPT !.pc = "called", !.G = G, !.arg = source, !.source = source, !.k = k]

\* lines 25-32, with s the node randomNode returns when it is called
prologue(f, s) ==
    LET source == IF ~truth(f.source) THEN s ELSE f.source
    IN  [f EXCEPT !.pc = "while",
                  !.source = source,
                  !.visited = [v \in 0..(f.G.n - 1) |-> FALSE],
                  !.Q = <<source>>,
                  !.closest = {source},
                  !.found = 0,
                  !.appends = [v \in 0..(f.G.n - 1) |-> 0]]

\* line 33: the loop test
looping(f) == f.Q # <<>> /\ f.found < f.k

\* line 34 and the start of line 42
pop(f) ==
    LET u    == Head(f.Q)
        todo == forEdgesOf(f.G, u)
    IN  [f EXCEPT !.u = u, !.Q = Tail(f.Q), !.todo = todo, !.pops = f.pops + 1,
                  !.pc = IF todo = <<>> THEN "while" ELSE "forEdgesOf"]

\* enqueue that does not mark the node visited
enqueue_unmarked(f, v) ==
    IF ~f.visited[v] /\ f.found < f.k
    THEN [f EXCEPT !.found = f.found + 1,
                   !.Q = Append(f.Q, v),
                   !.closest = f.closest \cup {v},
                   !.appends[v] = f.appends[v] + 1]
    ELSE f

\* lines 35-41: the callback
enqueue(f, v) ==
    IF ~f.visited[v] /\ f.found < f.k
    THEN [f EXCEPT !.found = f.found + 1,
                   !.visited[v] = TRUE,
                   !.Q = Append(f.Q, v),
                   !.closest = f.closest \cup {v},
                   !.appends[v] = f.appends[v] + 1]
    ELSE f

\* lines 43-45
epilogue(f) == [f EXCEPT !.pc = "done", !.G1 = subgraphFromNodes(f.G, f.closest)]

(***************************************************************************)
(* State.                                                                  *)
(*   graphmlsax  GraphMLReader.graphmlsax, the handler made in __init__    *)
(*   rstatus     where the reader is: "idle", "parsing" (inside            *)
(*               xml.sax.parse), "returned", "failed" (read() left by an   *)
(*               exception), "crashed" (the engine aborted the process)    *)
(*   result      <<g>> when read() returned g, else <<>>                   *)
(*   exc         the exception that ended the last read(), else "none"     *)
(*   open        the open elements of the document, root first             *)
(*   doc         what the document being parsed contained so far           *)
(*   ev          the last event delivered to the handler                   *)
(*   reads       number of read() calls started                            *)
(*   elems       number of elements the reader was given so far            *)
(*   writer      the GraphMLWriter instance                                *)
(*   file        the element events of the last written document           *)
(*   graph       the graph handed to the last write()                      *)
(*   writes      [n |-> number of write() calls made, entry |-> the        *)
(*               writer's edgeIdCounter when the last call began]          *)
(*   frame       the activation of bfsSample(): its parameters and locals  *)
(***************************************************************************)
VARIABLES graphmlsax, rstatus, result, exc, open, doc, ev, reads, elems,
          writer, file, graph, writes, frame

vars == <<graphmlsax, rstatus, result, exc, open, doc, ev, reads, elems,
          writer, file, graph, writes, frame>>

readerVars == <<graphmlsax, rstatus, result, exc, open, doc, ev, reads, elems>>

writerVars == <<writer, file, graph, writes>>

samplerVars == <<frame>>

(***************************************************************************)
(* The documents: any well-nested sequence of key, graph, node, edge and   *)
(* data elements below the root, with one graph element.                   *)
(***************************************************************************)
ExtIds == {"0", "a"}

KeyIds == {"d1", "k"}

Texts == {<<"2", ".", "5">>, <<" ", "7">>, <<"x">>}

\* elements whose text content the documents vary
TextParents == {"edge", "data"}

GraphAttrs == {[edgedefault |-> d, id |-> i] : d \in {"directed", "undirected"}, i \in {"", "g1"}}
              \cup {[edgedefault |-> "directed"], [id |-> "g1"]}

NodeAttrs == {[id |-> x] : x \in ExtIds}

EdgeAttrs == {[source |-> u, target |-> v] : u \in ExtIds, v \in ExtIds}

KeyAttr(f, n, t, k) == ("for" :> f) @@ ("attr.name" :> n) @@ ("attr.type" :> t) @@ ("id" :> k)

KeyAttrs == {KeyAttr("edge", "weight", "double", k) : k \in KeyIds}
            \cup {KeyAttr("node", "weight", "double", "d1"),
                  KeyAttr("edge", "label", "double", "d1"),
                  KeyAttr("edge", "weight", "string", "d1")}

DataAttrs == {[key |-> k] : k \in KeyIds \cup {""}}

AttrsOf(name) ==
    CASE name = "graph" -> GraphAttrs
      [] name = "node"  -> NodeAttrs
      [] name = "edge"  -> EdgeAttrs
      [] name = "key"   -> KeyAttrs
      [] name = "data"  -> DataAttrs

ElementNames == {"graph", "node", "edge", "key", "data"}

NoAttrs == [x \in {} |-> ""]

Element(name, attrs) == [name |-> name, attrs |-> attrs]

\* an open element.  attrs: its attributes, kept for edge elements only;
\* before: for a data element, how many chunks of the handler's charBuffer
\* were received before the element started; lost: character data received
\* inside a data element was discarded at the end of an element inside it;
\* weights: for an edge element, the pending edge weights that the ends of
\* data elements inside it have set
OpenElement(self, name, attrs) ==
    [name    |-> name,
     attrs   |-> IF name = "edge" THEN attrs ELSE NoAttrs,
     before  |-> IF name = "data" THEN Len(self.charBuffer) ELSE 0,
     lost    |-> FALSE,
     weights |-> {}]

\* the open elements after the innermost one closed: self is the handler
\* before the callback, r what the callback returned
OpenEnd(es, self, r) ==
    LET top      == es[Len(es)]
        rest     == SubSeq(es, 1, Len(es) - 1)
        captured == top.name = "data" /\ self.keepData /\ r.exc = "none"
    IN  [i \in 1..Len(rest) |->
            CASE rest[i].name = "data" ->
                     [rest[i] EXCEPT !.lost = rest[i].lost \/ Len(self.charBuffer) > rest[i].before,
                                     !.before = 0]
              [] rest[i].name = "edge" /\ captured ->
                     [rest[i] EXCEPT !.weights = rest[i].weights \cup {r.self.edgeweight}]
              [] OTHER -> rest[i]]

IsWeightKey(name, attrs) ==
    /\ name = "key"
    /\ hasValue(attrs, "for") /\ attrs["for"] = "edge"
    /\ hasValue(attrs, "attr.name") /\ attrs["attr.name"] = "weight"
    /\ hasValue(attrs, "attr.type") /\ attrs["attr.type"] = "double"

\* nodes: node elements seen; declared: their ids; regular: every node element
\* so far was inside the graph element and had an id not seen before;
\* keyBefore: a weight key was opened before the graph element; id: the id
\* attribute of the graph element, "absent" when it has none
NewDoc == [nodes |-> 0, declared |-> {}, regular |-> TRUE, graphOpen |-> FALSE,
           edgedefault |-> "", keyBefore |-> FALSE, id |-> "absent"]

\* the document after one more element was opened
DocStart(d, name, attrs) ==
    [d EXCEPT !.nodes = IF name = "node" THEN d.nodes + 1 ELSE d.nodes,
              !.declared = IF name = "node" /\ hasValue(attrs, "id")
                           THEN d.declared \cup {attrs["id"]} ELSE d.declared,
              !.regular = d.regular /\ (name = "node" =>
                              /\ d.graphOpen
                              /\ hasValue(attrs, "id") /\ attrs["id"] \notin d.declared),
              !.graphOpen = d.graphOpen \/ name = "graph",
              !.edgedefault = IF name = "graph" /\ hasValue(attrs, "edgedefault")
                              THEN attrs["edgedefault"] ELSE d.edgedefault,
              !.keyBefore = d.keyBefore \/ (IsWeightKey(name, attrs) /\ ~d.graphOpen),
              !.id = IF name = "graph" /\ hasValue(attrs, "id") THEN attrs["id"] ELSE d.id]

Event(type, name) == [type |-> type, name |-> name]

(***************************************************************************)
(* GraphMLReader.  __init__ makes the one handler; read() hands it to      *)
(* xml.sax.parse, which calls it event by event, and returns getGraph().   *)
(***************************************************************************)
ReaderInit ==
    /\ graphmlsax = GraphMLSAX
    /\ rstatus = "idle"
    /\ result = <<>>
    /\ exc = "none"
    /\ open = <<>>
    /\ doc = NewDoc
    /\ ev = Event("none", "")
    /\ reads = 0
    /\ elems = 0

\* what read() does with the outcome r of a callback
Deliver(r, openAfter, docAfter, event) ==
    /\ graphmlsax' = r.self
    /\ open' = openAfter
    /\ doc' = docAfter
    /\ ev' = event
    /\ \/ /\ r.exc = "none"
          /\ IF openAfter = <<>>
             THEN rstatus' = "returned" /\ result' = <<getGraph(r.self)>>
             ELSE rstatus' = "parsing" /\ result' = <<>>
          /\ exc' = "none"
       \/ /\ r.exc \notin {"none", "undefined"}
          /\ rstatus' = "failed" /\ result' = <<>> /\ exc' = r.exc
       \/ /\ r.exc = "undefined"
          /\ \/ rstatus' = "crashed" /\ result' = <<>> /\ exc' = "none"
             \/ /\ IF openAfter = <<>>
                   THEN rstatus' = "returned" /\ result' = <<getGraph(r.self)>>
                   ELSE rstatus' = "parsing" /\ result' = <<>>
                /\ exc' = "none"

\* read(fpath) is called: the parser opens the root element
read ==
    /\ rstatus \in {"idle", "returned", "failed"}
    /\ reads < MaxReads
    /\ reads' = reads + 1
    /\ Deliver(startElement(graphmlsax, "graphml", NoAttrs),
               <<OpenElement(graphmlsax, "graphml", NoAttrs)>>, NewDoc,
               Event("start", "graphml"))
    /\ UNCHANGED <<elems, writerVars, samplerVars>>

StartElement(name, attrs) ==
    /\ rstatus = "parsing"
    /\ elems < MaxElems
    /\ elems' = elems + 1
    /\ Len(open) <= MaxDepth
    /\ name = "graph" => ~doc.graphOpen
    /\ Deliver(startElement(graphmlsax, name, attrs),
               Append(open, OpenElement(graphmlsax, name, attrs)), DocStart(doc, name, attrs),
               Event("start", name))
    /\ UNCHANGED <<reads, writerVars, samplerVars>>

Characters(content) ==
    /\ rstatus = "parsing"
    /\ Len(graphmlsax.charBuffer) < MaxChunks
    /\ open[Len(open)].name \in TextParents
    /\ Deliver(Return(characters(graphmlsax, content)), open, doc, Event("characters", ""))
    /\ UNCHANGED <<reads, elems, writerVars, samplerVars>>

\* the innermost open element closes; closing the root ends the document
EndElement ==
    /\ rstatus = "parsing"
    /\ open # <<>>
    /\ Len(open) = 1 => doc.graphOpen
    /\ LET r == endElement(graphmlsax, open[Len(open)].name)
       IN  Deliver(r, OpenEnd(open, graphmlsax, r), doc, Event("end", open[Len(open)].name))
    /\ UNCHANGED <<reads, elems, writerVars, samplerVars>>

WriterIdle ==
    /\ writer = GraphMLWriter
    /\ file = <<>>
    /\ graph = Graph(0, FALSE, FALSE)
    /\ writes = [n |-> 0, entry |-> 0]

Init == ReaderInit /\ WriterIdle /\ frame = NoCall

(***************************************************************************)
(* The graphs handed to write(): dense node ids 0..n-1, no edge twice.     *)
(***************************************************************************)
Weights == {Float(FALSE, 25, 1), Float(TRUE, 125, 3)}

GraphNames == {"g1"}

EdgeRecs(n, weighted) ==
    [u : 0..(n - 1), v : 0..(n - 1), w : IF weighted THEN Weights ELSE {DefaultEdgeWeight}]

\* a graph as the engine holds it: no edge twice
IsGraph(G) ==
    \A i \in 1..Len(G.edges) : \A j \in 1..Len(G.edges) :
        i # j => ~SameEdge(G, G.edges[i], G.edges[j].u, G.edges[j].v)

\* write(G, fname) on the one writer, for any graph G within the bounds
Write ==
    /\ file = <<>>
    /\ writes.n < MaxWrites
    /\ \E n \in 0..MaxNodes, weighted \in BOOLEAN, directed \in BOOLEAN, name \in GraphNames :
          \E k \in 0..MaxEdges : \E es \in [1..k -> EdgeRecs(n, weighted)] :
              LET G == [n |-> n, weighted |-> weighted, directed |-> directed, name |-> name,
                        edges |-> es]
                  r == write(writer, G)
              IN  /\ IsGraph(G)
                  /\ writer' = r.self
                  /\ file' = r.out
                  /\ graph' = G
    /\ writes' = [n |-> writes.n + 1, entry |-> writer.edgeIdCounter]
    /\ UNCHANGED <<readerVars, samplerVars>>

\* the caller is done with the document, the graph written to it and the
\* reader it was read with; the writer is kept, GraphMLReader() makes the
\* next reader
Finish ==
    /\ file # <<>>
    /\ file' = <<>>
    /\ graph' = Graph(0, FALSE, FALSE)
    /\ graphmlsax' = GraphMLSAX
    /\ rstatus' = "idle"
    /\ result' = <<>>
    /\ exc' = "none"
    /\ reads' = 0
    /\ UNCHANGED <<open, doc, ev, elems, writer, writes, samplerVars>>

\* the handler's callback for one event of a document
handle(self, e) ==
    CASE e.type = "start"      -> startElement(self, e.name, e.attrs)
      [] e.type = "characters" -> Return(characters(self, e.content))
      [] e.type = "end"        -> endElement(self, e.name)

\* xml.sax.parse(fpath, handler): the events in document order, up to the
\* first one whose callback does not return
RECURSIVE parse(_, _)
parse(self, events) ==
    IF events = <<>> THEN Return(self)
    ELSE LET r == handle(self, Head(events))
         IN  IF r.exc = "none" THEN parse(r.self, Tail(events)) ELSE r

\* read(fname) on the new reader, for the whole written document
ReadFile ==
    /\ file # <<>>
    /\ rstatus = "idle"
    /\ reads' = reads + 1
    /\ LET r == parse(graphmlsax, file)
       IN  /\ graphmlsax' = r.self
           /\ exc' = IF r.exc = "undefined" THEN "none" ELSE r.exc
           /\ rstatus' = CASE r.exc = "none" -> "returned"
                             [] r.exc = "undefined" -> "crashed"
                             [] OTHER -> "failed"
           /\ result' = IF r.exc = "none" THEN <<getGraph(r.self)>> ELSE <<>>
    /\ UNCHANGED <<open, doc, ev, elems, writerVars, samplerVars>>

NextRT ==
    \/ Write
    \/ ReadFile
    \/ Finish

SpecRT == Init /\ [][NextRT]_vars

Next ==
    \/ read
    \/ \E name \in ElementNames : \E attrs \in AttrsOf(name) : StartElement(name, attrs)
    \/ \E content \in Texts : Characters(content)
    \/ EndElement

Spec == Init /\ [][Next]_vars

(***************************************************************************)
(* One call of bfsSample(G, source, k), for any graph within the bounds,   *)
(* any node of it or None as source, and any k.                            *)
(***************************************************************************)
InitBFS ==
    /\ ReaderInit
    /\ WriterIdle
    /\ \E n \in 1..MaxNodes, directed \in BOOLEAN, k \in 0..MaxK :
          \E m \in 0..MaxEdges : \E es \in [1..m -> EdgeRecs(n, FALSE)] :
              \E source \in {None} \cup 0..(n - 1) :
                  LET G == [n |-> n, weighted |-> FALSE, directed |-> directed, name |-> "",
                            edges |-> es]
                  IN  IsGraph(G) /\ frame = Called(G, source, k)

\* lines 25-32
Prologue ==
    /\ frame.pc = "called"
    /\ \E s \in randomNode(frame.G) : frame' = prologue(frame, s)
    /\ UNCHANGED <<readerVars, writerVars>>

\* lines 33-34: the test holds, u is taken from Q and forEdgesOf(u) begins
Pop ==
    /\ frame.pc = "while"
    /\ looping(frame)
    /\ frame' = pop(frame)
    /\ UNCHANGED <<readerVars, writerVars>>

\* lines 35-42: forEdgesOf calls enqueue for the next edge at u
Enqueue ==
    /\ frame.pc = "forEdgesOf"
    /\ LET f == enqueue(frame, Head(frame.todo))
       IN  frame' = [f EXCEPT !.todo = Tail(frame.todo),
                              !.pc = IF Tail(frame.todo) = <<>> THEN "while" ELSE "forEdgesOf"]
    /\ UNCHANGED <<readerVars, writerVars>>

\* lines 43-45: the test fails, the subgraph is returned
Epilogue ==
    /\ frame.pc = "while"
    /\ ~looping(frame)
    /\ frame' = epilogue(frame)
    /\ UNCHANGED <<readerVars, writerVars>>

NextBFS ==
    \/ Prologue
    \/ Pop
    \/ Enqueue
    \/ Epilogue

\* the interpreter goes on executing the call as long as it has a next step
SpecBFS == InitBFS /\ [][NextBFS]_vars /\ WF_vars(NextBFS)

(***************************************************************************)
(* Properties of the round trip and of the writer, under SpecRT.           *)
(***************************************************************************)
\* the written document was read and read() returned
RoundTripDone == file # <<>> /\ rstatus = "returned"

EdgeSet(G) == {IF G.directed \/ G.edges[i].u <= G.edges[i].v
               THEN <<G.edges[i].u, G.edges[i].v>>
               ELSE <<G.edges[i].v, G.edges[i].u>> : i \in 1..Len(G.edges)}

\* C1: reading the document written for G with a new reader never fails and
\* returns a graph with G's node count, directed flag, weighted flag and
\* edge set, node ids unchanged.
C1_RoundTrip ==
    /\ file # <<>> => rstatus \in {"idle", "returned"}
    /\ RoundTripDone =>
          /\ result[1].n = graph.n
          /\ result[1].directed = graph.directed
          /\ result[1].weighted = graph.weighted
          /\ Len(result[1].edges) = Len(graph.edges)
          /\ EdgeSet(result[1]) = EdgeSet(graph)

C1_Witness ==
    /\ RoundTripDone
    /\ graph.n = 2 /\ graph.directed /\ graph.weighted
    /\ EdgeSet(graph) = {<<0, 1>>, <<1, 1>>}

\* C2: after the round trip of a weighted graph G, every edge (u,v) of G has
\* in the graph read back the weight it has in G.
C2_WeightFidelity ==
    RoundTripDone /\ graph.weighted =>
        \A i \in 1..Len(graph.edges) :
            weight(result[1], graph.edges[i].u, graph.edges[i].v) = graph.edges[i].w

C2_Witness ==
    /\ RoundTripDone /\ graph.weighted
    /\ Len(graph.edges) = 2
    /\ graph.edges[1].w # graph.edges[2].w

EdgeStarts == SelectSeq(file, LAMBDA e : e.type = "start" /\ e.name = "edge")

\* C5: in every written document, also one written after earlier write()
\* calls on the same writer, the k-th edge element (from 0) has id "e{k}",
\* and there is one edge element per edge of the graph.
C5_WriterReuse ==
    file # <<>> =>
        /\ Len(EdgeStarts) = Len(graph.edges)
        /\ \A k \in 1..Len(EdgeStarts) : EdgeStarts[k].attrs["id"] = "e" \o str(k - 1)

C5_Witness ==
    /\ file # <<>>
    /\ writes.n = 2 /\ writes.entry = 2 /\ Len(graph.edges) = 2

IsStart(i, name) == file[i].type = "start" /\ file[i].name = name

KeyStarts == {i \in 1..Len(file) : IsStart(i, "key")}

GraphStarts == {i \in 1..Len(file) : IsStart(i, "graph")}

\* the edge element opened at i has a data child with key "d1"
HasWeightData(i) ==
    \E j \in (i + 1)..Len(file) :
        /\ IsStart(j, "data") /\ file[j].attrs = [key |-> "d1"]
        /\ \A m \in (i + 1)..j : ~(file[m].type = "end" /\ file[m].name = "edge")

\* C10: the written document has exactly one key element, with for="edge",
\* id="d1", attr.name="weight", attr.type="double" and before the graph
\* element, if the graph is weighted, and no key element otherwise; every
\* edge element has a data child with key "d1" iff the graph is weighted.
C10_WeightDeclaration ==
    file # <<>> =>
        /\ Cardinality(KeyStarts) = IF graph.weighted THEN 1 ELSE 0
        /\ \A i \in KeyStarts :
              /\ file[i].attrs = KeyAttr("edge", "weight", "double", "d1")
              /\ \A j \in GraphStarts : i < j
        /\ \A i \in 1..Len(file) : IsStart(i, "edge") => (HasWeightData(i) <=> graph.weighted)

C10_Witness ==
    /\ file # <<>> /\ graph.weighted /\ Len(graph.edges) = 2
    /\ Cardinality(KeyStarts) = 1

(***************************************************************************)
(* Properties of the reader, under Spec: read() calls on one GraphMLReader *)
(* instance, each on a document of its own.                                *)
(***************************************************************************)
\* C3: a graph returned by read() is weighted only if the document read had
\* a weight key element opened before its graph element.
C3_OrderingContract ==
    rstatus = "returned" => (result[1].weighted => doc.keyBefore)

\* the innermost open element is an edge element and this step closes it
EdgeCloses ==
    /\ rstatus = "parsing" /\ open # <<>> /\ open[Len(open)].name = "edge"
    /\ ev' = Event("end", "edge") /\ Len(open') = Len(open) - 1

ClosingEdge == open[Len(open)].attrs

\* C4: when an edge element closes whose source or target id no node element
\* of the document being parsed has declared, read() fails at that event,
\* and the graph gets neither an edge nor a node.
C4_UndeclaredReference ==
    [][(/\ EdgeCloses
        /\ \/ ClosingEdge["source"] \notin doc.declared
           \/ ClosingEdge["target"] \notin doc.declared)
       => (rstatus' = "failed" /\ graphmlsax'.g = graphmlsax.g)]_vars

MappedIds == {graphmlsax.mapping[x] : x \in DOMAIN graphmlsax.mapping}

\* C6: at every point of a parse the internal ids in the mapping are exactly
\* 0 .. (node elements seen in this document) - 1, and they are the nodes of
\* the graph under construction; stated for documents whose node elements are
\* inside the graph element and have distinct ids.
C6_NodeIdAssignment ==
    rstatus \in {"parsing", "returned"} /\ doc.regular =>
        /\ MappedIds = 0..(doc.nodes - 1)
        /\ doc.graphOpen => graphmlsax.g.n = doc.nodes

\* C7: during a read() the mapping holds only ids declared by node elements
\* of the document being read; it is empty when the read() starts.
C7_MappingLifetime ==
    rstatus = "parsing" => DOMAIN graphmlsax.mapping \subseteq doc.declared

\* C8: a graph returned by read() is directed iff the edgedefault attribute
\* of the graph element of the document read is "directed".
C8_Directedness ==
    rstatus = "returned" => (result[1].directed <=> doc.edgedefault = "directed")

\* this step closes the innermost open element
ElementCloses ==
    /\ rstatus = "parsing" /\ open # <<>>
    /\ ev' = Event("end", open[Len(open)].name) /\ Len(open') = Len(open) - 1

\* the closing element is an armed data element whose text is no number, or
\* an edge element with a source or target id that is not in the mapping
Aborting ==
    /\ ElementCloses
    /\ \/ /\ open[Len(open)].name = "data"
          /\ graphmlsax.keepData
          /\ ~float(join(graphmlsax.charBuffer)).ok
       \/ /\ open[Len(open)].name = "edge"
          /\ \/ ClosingEdge["source"] \notin DOMAIN graphmlsax.mapping
             \/ ClosingEdge["target"] \notin DOMAIN graphmlsax.mapping

C13_CaptureArming == graphmlsax.keepData => graphmlsax.weighted

\* this step closes a data element while the capture flag is set
ArmedDataCloses ==
    ElementCloses /\ open[Len(open)].name = "data" /\ graphmlsax.keepData

\* C14: when an armed data element closes, the text that is parsed (the
\* charBuffer at that moment) is the character data received between that
\* element's start and its end: it holds nothing received before the
\* element started, and nothing received inside the element is missing.
C14_CapturedText ==
    [][ArmedDataCloses =>
          /\ open[Len(open)].before = 0
          /\ ~open[Len(open)].lost]_vars

\* this step closes an edge element whose ends are in the mapping, so that
\* addEdge is called
EdgeInserted ==
    /\ EdgeCloses
    /\ ClosingEdge["source"] \in DOMAIN graphmlsax.mapping
    /\ ClosingEdge["target"] \in DOMAIN graphmlsax.mapping

\* C15: in a weighted parse the weight passed to addEdge at an edge's end is
\* the number of a matching data element inside that edge element, or 0 when
\* it has none; and the pending edge weight is 0 whenever an edge element
\* starts.
C15_NoWeightLeak ==
    [][/\ EdgeInserted /\ graphmlsax.weighted =>
             graphmlsax.edgeweight \in (IF open[Len(open)].weights = {}
                                        THEN {Float(FALSE, 0, 0)}
                                        ELSE open[Len(open)].weights)
       /\ rstatus = "parsing" /\ ev' = Event("start", "edge") =>
             graphmlsax.edgeweight = Float(FALSE, 0, 0)]_vars

OpenEdges == SelectSeq(open, LAMBDA e : e.name = "edge")

\* C16: during a parse the edge stack holds the (source, target) pairs of
\* the open edge elements, outermost first, so that an edge's end pops the
\* pair of the innermost open edge; the stack is empty when read() returns.
C16_EdgeStaging ==
    /\ rstatus = "parsing" =>
          graphmlsax.edgestack =
              [i \in 1..Len(OpenEdges) |->
                  <<OpenEdges[i].attrs["source"], OpenEdges[i].attrs["target"]>>]
    /\ rstatus = "returned" => graphmlsax.edgestack = <<>>

\* this step starts the graph element
GraphOpens == rstatus = "parsing" /\ ev' = Event("start", "graph")

\* g is the graph h with nodes and edges added
Grown(g, h) ==
    /\ g.weighted = h.weighted /\ g.directed = h.directed /\ g.name = h.name
    /\ g.n >= h.n
    /\ Len(g.edges) >= Len(h.edges) /\ SubSeq(g.edges, 1, Len(h.edges)) = h.edges

\* C17: the graph made at the graph element's start has the handler's flags
\* of that moment, and every later event of the same parse leaves its
\* weighted flag, its directed flag and its name as they are and only adds
\* nodes and edges to it.
C17_FlagsFrozen ==
    [][/\ GraphOpens /\ rstatus' = "parsing" =>
             /\ graphmlsax'.g.weighted = graphmlsax.weighted
             /\ graphmlsax'.g.directed = graphmlsax'.directed
       /\ rstatus = "parsing" /\ doc.graphOpen => Grown(graphmlsax'.g, graphmlsax.g)]_vars

\* a weight key came after the graph element's start and the graph under
\* construction is still unweighted
C17_Witness ==
    /\ rstatus = "parsing" /\ doc.graphOpen /\ ev = Event("start", "key")
    /\ graphmlsax.weighted /\ ~graphmlsax.g.weighted

\* C18: whenever addEdge is called at an edge's end, the handler's weighted
\* flag, which decides whether a weight is passed, is the weighted flag the
\* graph under construction was made with.
C18_WeightedInsertion ==
    [][EdgeInserted => graphmlsax.weighted = graphmlsax.g.weighted]_vars

\* C19: the start of a graph element (with an edgedefault attribute) never
\* fails; the graph's name is the id attribute when there is one and it is
\* not empty, and empty otherwise.
C19_GraphName ==
    [][GraphOpens /\ doc'.edgedefault # "" =>
          /\ rstatus' = "parsing"
          /\ graphmlsax'.g.name = IF doc'.id \in {"absent", ""} THEN "" ELSE doc'.id]_vars

(***************************************************************************)
(* Properties of bfsSample, under SpecBFS.                                 *)
(***************************************************************************)
\* C11: for k >= 1 the node set handed to subgraphFromNodes has at most k
\* nodes.
C11_AtMostK ==
    frame.pc = "done" /\ frame.k >= 1 => Cardinality(frame.G1.nodes) <= frame.k

\* C12: when the caller passes a node as source, also node 0, the search
\* starts from that node; only for source = None is a random node taken.
C12_StartsAtSource ==
    frame.pc \in {"while", "forEdgesOf", "done"} /\ frame.arg # None =>
        frame.source = frame.arg

\* C20: the call returns; the loop begins at most 1 + (number of nodes)
\* iterations, and Q.append is called at most once with every node.
C20_Termination ==
    /\ [](frame.pc \in {"while", "forEdgesOf", "done"} =>
             /\ \A v \in DOMAIN frame.appends : frame.appends[v] <= 1
             /\ frame.pops <= frame.G.n + 1)
    /\ <>(frame.pc = "done")

\* the search came back to the source: it was appended to Q and the loop ran
\* a second time
C20_Witness ==
    /\ frame.pc = "done"
    /\ frame.pops >= 2
    /\ frame.appends[frame.source] = 1

====
